---- MODULE Spec2Model ----
(***************************************************************************)
(* Raw-mode guard of termion (src/raw.rs).  Structure-based (termios)      *)
(* backend, Spec: into_raw_mode captures the terminal attributes, applies  *)
(* the raw variant and returns a RawTerminal guard whose Drop writes the   *)
(* captured attributes back.  The terminal attribute state is one          *)
(* process-wide OS value, mutated by side effect.  Sequence-based (redox)  *)
(* backend, RedoxSpec: into_raw_mode and Drop write control sequences to   *)
(* the wrapped channel.                                                    *)
(*                                                                         *)
(* The calls of one thread are synchronous, and calls from several guards  *)
(* are serialized: every call is one step.                                 *)
(***************************************************************************)
EXTENDS Integers, Sequences, FiniteSets, TLC

\* ------------------------------------------------------------------ bounds
\* Number of into_raw_mode calls (guard slots) of one run.
MaxGuards == 2
\* Number of other steps of one run: write and flush calls, attribute changes
\* made by other parties, release requests on a guard already released.
MaxOps == 2

Guards == 1..MaxGuards

\* ----------------------------------------------------------------- termios
\* The part of struct termios that cfmakeraw decides: input echo, line
\* buffering, signal-generating characters, output post-processing.
Termios == [echo : BOOLEAN, icanon : BOOLEAN, isig : BOOLEAN, opost : BOOLEAN]

\* The attribute states of a run: cooked, a mixed (cbreak-like) mode, and
\* raw already.  A run starts cooked or mixed; other parties set any of the
\* three.
Cooked == [echo |-> TRUE, icanon |-> TRUE, isig |-> TRUE, opost |-> TRUE]
Cbreak == [echo |-> FALSE, icanon |-> FALSE, isig |-> TRUE, opost |-> TRUE]
Zeroed == [echo |-> FALSE, icanon |-> FALSE, isig |-> FALSE, opost |-> FALSE]
Modes == {Cooked, Cbreak, Zeroed}
StartModes == {Cooked, Cbreak}

\* Option<T> as a set of at most one element.
None == {}
Some(x) == {x}

\* cfmakeraw(&mut ios): no echo, no line buffering, no signal characters,
\* transparent output.
cfmakeraw(ios) ==
    [ios EXCEPT !.echo = FALSE, !.icanon = FALSE, !.isig = FALSE, !.opost = FALSE]

\* get_terminal_attr() -> (Termios, c_int): the current attributes and 0, or
\* on failure whatever the structure holds and a non-zero status.
get_terminal_attr(cur, fails, garbage) ==
    IF fails THEN [ios |-> garbage, exit |-> -1]
             ELSE [ios |-> cur, exit |-> 0]

\* set_terminal_attr(ios) -> c_int: the OS call either fully succeeds or fully
\* fails; term is the terminal attribute state after the call.
set_terminal_attr(cur, ios, fails) ==
    IF fails THEN [term |-> cur, ret |-> -1]
             ELSE [term |-> ios, ret |-> 0]

\* ------------------------------------------------------------ io::Result
NotCalled == [tag |-> "NotCalled", kind |-> "", msg |-> ""]
Ok == [tag |-> "Ok", kind |-> "", msg |-> ""]
Err(kind, msg) == [tag |-> "Err", kind |-> kind, msg |-> msg]
\* The two errors of into_raw_mode.
ReadFailed == Err("Other", "Unable to get Termios attribute.")
WriteFailed == Err("Other", "Unable to set Termios attribute.")

\* An OS call as made: which one, the attributes passed in (None for the
\* read) and the status it returned.
OsCall(op, arg, ret) == [op |-> op, arg |-> arg, ret |-> ret]

\* ------------------------------------------------------- wrapped channel W
\* A channel records the calls it receives, with the result it gave to each,
\* and the bytes it accepted.
Bufs == {<<104, 105>>}
EmptyChannel == [recv |-> <<>>, data |-> <<>>]
Call(op, buf, ret) == [op |-> op, buf |-> buf, ret |-> ret]
IoOk(n) == [tag |-> "Ok", n |-> n]
IoErr == [tag |-> "Err", n |-> 0]

\* W::write(buf): the channel accepts the first n bytes (Ok(n): all of them,
\* or a short write), or fails (n = -1) accepting nothing.
W_write(ch, buf, n) ==
    LET ret == IF n < 0 THEN IoErr ELSE IoOk(n)
    IN  [chan |-> [recv |-> Append(ch.recv, Call("write", buf, ret)),
                   data |-> IF n < 0 THEN ch.data ELSE ch.data \o SubSeq(buf, 1, n)],
         ret |-> ret]

\* W::flush()
W_flush(ch, ok) ==
    LET ret == IF ok THEN IoOk(0) ELSE IoErr
    IN  [chan |-> [recv |-> Append(ch.recv, Call("flush", <<>>, ret)),
                   data |-> ch.data],
         ret |-> ret]

\* ------------------------------------------------------------------- state
VARIABLES
    tios,         \* the terminal attribute state (OS, process-wide)
    lifecycle,    \* per guard slot: Uninitialized / RawActive / Restored
    prev_ios,     \* RawTerminal.prev_ios of each guard (None before construction)
    output,       \* RawTerminal.output of each guard: the wrapped channel
    result,       \* what the slot's into_raw_mode call returned
    pre,          \* the terminal attributes when the slot's call began
    nestedIn,     \* the guards that were live when the slot's call was made
    enterTrace,   \* the OS calls the slot's into_raw_mode made
    dropTrace,    \* the OS calls the guard's drop made
    dropOutcome,  \* how drop ended: none / completed / panicked
    relAgain,     \* a release was requested on a guard already released
    dirty,        \* someone else changed the terminal while the guard was live
    lastReleased, \* the guard released last (0: none yet)
    external,     \* another party has changed the attributes
    ops,          \* other steps made so far
    calls         \* per guard: the calls the caller made and what each returned

vars == <<tios, lifecycle, prev_ios, output, result, pre, nestedIn, enterTrace, dropTrace,
          dropOutcome, relAgain, dirty, lastReleased, external, ops, calls>>

guardVars == <<lifecycle, prev_ios, result, pre, nestedIn, enterTrace>>
dropVars == <<dropTrace, dropOutcome, lastReleased>>
ioVars == <<output, calls>>

Paths == {"normal", "early_return", "unwind"}

Init ==
    /\ tios \in StartModes
    /\ lifecycle = [g \in Guards |-> "Uninitialized"]
    /\ prev_ios = [g \in Guards |-> None]
    /\ output = [g \in Guards |-> EmptyChannel]
    /\ result = [g \in Guards |-> NotCalled]
    /\ pre = [g \in Guards |-> None]
    /\ nestedIn = [g \in Guards |-> {}]
    /\ enterTrace = [g \in Guards |-> <<>>]
    /\ dropTrace = [g \in Guards |-> <<>>]
    /\ dropOutcome = [g \in Guards |-> "none"]
    /\ relAgain = FALSE
    /\ dirty = [g \in Guards |-> FALSE]
    /\ lastReleased = 0
    /\ external = FALSE
    /\ ops = 0
    /\ calls = [g \in Guards |-> <<>>]

\* The live guards other than g see the terminal changed by someone else.
Touch(g, wrote) ==
    [h \in Guards |->
        IF wrote /\ h # g /\ lifecycle[h] = "RawActive" THEN TRUE ELSE dirty[h]]

\* ----------------------------------------------------------- into_raw_mode
\* Variant: the status of get_terminal_attr is not checked.
into_raw_mode_NoExitCheck(cur, getFails, garbage, setFails) ==
    LET got == get_terminal_attr(cur, getFails, garbage)
        prev == got.ios
        ios == cfmakeraw(got.ios)
        set == set_terminal_attr(cur, ios, setFails)
        trace == <<OsCall("get", None, got.exit), OsCall("set", Some(ios), set.ret)>>
    IN  IF set.ret # 0
        THEN [ret |-> WriteFailed, guard |-> None, term |-> set.term, trace |-> trace]
        ELSE [ret |-> Ok, guard |-> Some(prev), term |-> set.term, trace |-> trace]

\* Variant: the status of set_terminal_attr is not checked.
into_raw_mode_NoSetCheck(cur, getFails, garbage, setFails) ==
    LET got == get_terminal_attr(cur, getFails, garbage)
        prev == got.ios
    IN  IF got.exit # 0
        THEN [ret |-> ReadFailed, guard |-> None, term |-> cur,
              trace |-> <<OsCall("get", None, got.exit)>>]
        ELSE LET ios == cfmakeraw(got.ios)
                 set == set_terminal_attr(cur, ios, setFails)
             IN  [ret |-> Ok, guard |-> Some(prev), term |-> set.term,
                  trace |-> <<OsCall("get", None, got.exit),
                              OsCall("set", Some(ios), set.ret)>>]

\* Variant: the snapshot is cloned after cfmakeraw instead of before.
into_raw_mode_SavesRaw(cur, getFails, garbage, setFails) ==
    LET got == get_terminal_attr(cur, getFails, garbage)
    IN  IF got.exit # 0
        THEN [ret |-> ReadFailed, guard |-> None, term |-> cur,
              trace |-> <<OsCall("get", None, got.exit)>>]
        ELSE LET ios == cfmakeraw(got.ios)
                 prev == ios
                 set == set_terminal_attr(cur, ios, setFails)
                 trace == <<OsCall("get", None, got.exit),
                            OsCall("set", Some(ios), set.ret)>>
             IN  IF set.ret # 0
                 THEN [ret |-> WriteFailed, guard |-> None,
                       term |-> set.term, trace |-> trace]
                 ELSE [ret |-> Ok, guard |-> Some(prev),
                       term |-> set.term, trace |-> trace]

\* Variant: the guard is constructed before the status of set_terminal_attr
\* is looked at, and handed out with the error.
into_raw_mode_GuardOnFailure(cur, getFails, garbage, setFails) ==
    LET got == get_terminal_attr(cur, getFails, garbage)
        prev == got.ios
    IN  IF got.exit # 0
        THEN [ret |-> ReadFailed, guard |-> None, term |-> cur,
              trace |-> <<OsCall("get", None, got.exit)>>]
        ELSE LET ios == cfmakeraw(got.ios)
                 set == set_terminal_attr(cur, ios, setFails)
             IN  [ret |-> IF set.ret # 0 THEN WriteFailed ELSE Ok,
                  guard |-> Some(prev), term |-> set.term,
                  trace |-> <<OsCall("get", None, got.exit),
                              OsCall("set", Some(ios), set.ret)>>]

\* Variant: cfmakeraw is left out, the captured attributes are applied as
\* they are.
into_raw_mode_NoMakeRaw(cur, getFails, garbage, setFails) ==
    LET got == get_terminal_attr(cur, getFails, garbage)
        prev == got.ios
    IN  IF got.exit # 0
        THEN [ret |-> ReadFailed, guard |-> None, term |-> cur,
              trace |-> <<OsCall("get", None, got.exit)>>]
        ELSE LET ios == got.ios
                 set == set_terminal_attr(cur, ios, setFails)
                 trace == <<OsCall("get", None, got.exit),
                            OsCall("set", Some(ios), set.ret)>>
             IN  IF set.ret # 0
                 THEN [ret |-> WriteFailed, guard |-> None,
                       term |-> set.term, trace |-> trace]
                 ELSE [ret |-> Ok, guard |-> Some(prev),
                       term |-> set.term, trace |-> trace]

\* The body of into_raw_mode on terminal state cur: what it returns, the
\* guard it constructs (None on failure), the terminal state it leaves and
\* the OS calls it made.
into_raw_mode(cur, getFails, garbage, setFails) ==
    LET got == get_terminal_attr(cur, getFails, garbage)
        prev == got.ios
    IN  IF got.exit # 0
        THEN [ret |-> ReadFailed, guard |-> None, term |-> cur,
              trace |-> <<OsCall("get", None, got.exit)>>]
        ELSE LET ios == cfmakeraw(got.ios)
                 set == set_terminal_attr(cur, ios, setFails)
                 trace == <<OsCall("get", None, got.exit),
                            OsCall("set", Some(ios), set.ret)>>
             IN  IF set.ret # 0
                 THEN [ret |-> WriteFailed, guard |-> None,
                       term |-> set.term, trace |-> trace]
                 ELSE [ret |-> Ok, guard |-> Some(prev),
                       term |-> set.term, trace |-> trace]

\* Slot g's call; the slots are used in order, so g < h means g's call came
\* first.
IntoRawMode(g) ==
    /\ result[g] = NotCalled
    /\ \A h \in Guards : h < g => result[h] # NotCalled
    /\ \E getFails \in BOOLEAN, setFails \in BOOLEAN, garbage \in Modes :
         LET r == into_raw_mode(tios, getFails, garbage, setFails)
         IN  /\ tios' = r.term
             /\ result' = [result EXCEPT ![g] = r.ret]
             /\ pre' = [pre EXCEPT ![g] = Some(tios)]
             /\ nestedIn' = [nestedIn EXCEPT ![g] = {h \in Guards : lifecycle[h] = "RawActive"}]
             /\ enterTrace' = [enterTrace EXCEPT ![g] = r.trace]
             /\ prev_ios' = [prev_ios EXCEPT ![g] = r.guard]
             /\ lifecycle' = [lifecycle EXCEPT
                                ![g] = IF r.guard # None THEN "RawActive" ELSE @]
             /\ dirty' = Touch(g, r.term # tios)
    /\ UNCHANGED <<dropVars, ioVars, relAgain, external, ops>>

\* -------------------------------------------------------------------- drop
\* Variant: a failed restore is tried once more.
drop_Retry(snapshot, cur, fails) ==
    LET set == set_terminal_attr(cur, snapshot, fails)
        again == set_terminal_attr(set.term, snapshot, FALSE)
    IN  IF set.ret # 0
        THEN [term |-> again.term,
              trace |-> <<OsCall("set", Some(snapshot), set.ret),
                          OsCall("set", Some(snapshot), again.ret)>>,
              outcome |-> "completed"]
        ELSE [term |-> set.term, trace |-> <<OsCall("set", Some(snapshot), set.ret)>>,
              outcome |-> "completed"]

\* Variant: drop does not write the snapshot back.
drop_Forget(snapshot, cur, fails) ==
    [term |-> cur, trace |-> <<>>, outcome |-> "completed"]

\* Variant: the status of the restore is unwrapped, so a failure panics.
drop_Unwrap(snapshot, cur, fails) ==
    LET set == set_terminal_attr(cur, snapshot, fails)
    IN  [term |-> set.term, trace |-> <<OsCall("set", Some(snapshot), set.ret)>>,
         outcome |-> IF set.ret # 0 THEN "panicked" ELSE "completed"]

\* Variant: drop resets the terminal to the cooked defaults, not to the
\* snapshot.
drop_ResetsToCooked(snapshot, cur, fails) ==
    LET set == set_terminal_attr(cur, Cooked, fails)
    IN  [term |-> set.term, trace |-> <<OsCall("set", Some(Cooked), set.ret)>>,
         outcome |-> "completed"]

\* The body of Drop::drop on a guard holding snapshot: the terminal state it
\* leaves, the OS calls it made and how it ended.  The status of the call is
\* discarded.
drop(snapshot, cur, fails) ==
    LET set == set_terminal_attr(cur, snapshot, fails)
    IN  [term |-> set.term, trace |-> <<OsCall("set", Some(snapshot), set.ret)>>,
         outcome |-> "completed"]

\* The guard's scope ends on some exit path (an explicit drop(guard) ends it
\* normally): drop runs.
Release(g, path) ==
    /\ lifecycle[g] = "RawActive"
    /\ \E fails \in BOOLEAN :
         LET snapshot == CHOOSE s \in prev_ios[g] : TRUE
             r == drop(snapshot, tios, fails)
         IN  /\ tios' = r.term
             /\ dropTrace' = [dropTrace EXCEPT ![g] = @ \o r.trace]
             /\ dropOutcome' = [dropOutcome EXCEPT ![g] = r.outcome]
             /\ lifecycle' = [lifecycle EXCEPT
                    ![g] = IF r.outcome = "completed" THEN "Restored" ELSE "Aborted"]
             /\ dirty' = Touch(g, r.term # tios)
    /\ lastReleased' = g
    /\ UNCHANGED <<prev_ios, result, pre, nestedIn, enterTrace, ioVars, relAgain, external, ops>>

\* A release requested on a guard that was already released: the value was
\* moved into the first release, so no drop runs.
ReleaseAgain(g) ==
    /\ lifecycle[g] = "Restored"
    /\ ops < MaxOps
    /\ ops' = ops + 1
    /\ relAgain' = TRUE
    /\ UNCHANGED <<tios, guardVars, dropVars, ioVars, dirty, external>>

\* ------------------------------------------------------------ write, flush
\* Variant: the guard keeps the bytes for later and reports them written.
write_Buffers(out, buf, n) ==
    [chan |-> out, ret |-> IoOk(Len(buf))]

\* RawTerminal::write(buf): self.output.write(buf)
write(out, buf, n) ==
    W_write(out, buf, n)

\* RawTerminal::flush(): self.output.flush()
flush(out, ok) ==
    W_flush(out, ok)

\* Variant: a write leaves raw mode for its duration and does not come
\* back: it puts the guard's snapshot on the terminal.
Write_RestoresTerminal(g, buf) ==
    /\ lifecycle[g] = "RawActive"
    /\ ops < MaxOps
    /\ ops' = ops + 1
    /\ \E n \in {-1, Len(buf) - 1, Len(buf)} :
         LET r == write(output[g], buf, n)
         IN  /\ output' = [output EXCEPT ![g] = r.chan]
             /\ calls' = [calls EXCEPT ![g] = Append(@, Call("write", buf, r.ret))]
    /\ tios' = CHOOSE s \in prev_ios[g] : TRUE
    /\ UNCHANGED <<guardVars, dropVars, relAgain, dirty, external>>

Write(g, buf) ==
    /\ lifecycle[g] = "RawActive"
    /\ ops < MaxOps
    /\ ops' = ops + 1
    /\ \E n \in {-1, Len(buf) - 1, Len(buf)} :
         LET r == write(output[g], buf, n)
         IN  /\ output' = [output EXCEPT ![g] = r.chan]
             /\ calls' = [calls EXCEPT ![g] = Append(@, Call("write", buf, r.ret))]
    /\ UNCHANGED <<tios, guardVars, dropVars, relAgain, dirty, external>>

Flush(g) ==
    /\ lifecycle[g] = "RawActive"
    /\ ops < MaxOps
    /\ ops' = ops + 1
    /\ \E ok \in BOOLEAN :
         LET r == flush(output[g], ok)
         IN  /\ output' = [output EXCEPT ![g] = r.chan]
             /\ calls' = [calls EXCEPT ![g] = Append(@, Call("flush", <<>>, r.ret))]
    /\ UNCHANGED <<tios, guardVars, dropVars, relAgain, dirty, external>>

\* ------------------------------------------------------------------ borrow
\* Deref::deref(): &self.output
deref(out) ==
    out

\* DerefMut::deref_mut(): &mut self.output
deref_mut(out) ==
    out

\* The caller borrows the channel of a live guard and looks at it.
Deref(g) ==
    /\ lifecycle[g] = "RawActive"
    /\ deref(output[g]) = output[g]
    /\ UNCHANGED vars

\* The caller borrows the channel of a live guard mutably and writes buf on
\* it, past the guard's own write.
DerefMut(g, buf) ==
    /\ lifecycle[g] = "RawActive"
    /\ ops < MaxOps
    /\ ops' = ops + 1
    /\ \E n \in {-1, Len(buf) - 1, Len(buf)} :
         LET r == W_write(deref_mut(output[g]), buf, n)
         IN  /\ output' = [output EXCEPT ![g] = r.chan]
             /\ calls' = [calls EXCEPT ![g] = Append(@, Call("write", buf, r.ret))]
    /\ UNCHANGED <<tios, guardVars, dropVars, relAgain, dirty, external>>

\* ------------------------------------------------------------- environment
\* Another party (another process on the same terminal) changes the
\* attributes.
ExternalSet(t) ==
    /\ ops < MaxOps
    /\ ops' = ops + 1
    /\ t # tios
    /\ tios' = t
    /\ external' = TRUE
    /\ dirty' = [h \in Guards |-> IF lifecycle[h] = "RawActive" THEN TRUE ELSE dirty[h]]
    /\ UNCHANGED <<guardVars, dropVars, ioVars, relAgain>>

Next ==
    \/ \E g \in Guards : IntoRawMode(g)
    \/ \E g \in Guards, p \in Paths : Release(g, p)
    \/ \E g \in Guards : ReleaseAgain(g)
    \/ \E g \in Guards, buf \in Bufs : Write(g, buf)
    \/ \E g \in Guards : Flush(g)
    \/ \E g \in Guards : Deref(g)
    \/ \E g \in Guards, buf \in Bufs : DerefMut(g, buf)
    \/ \E t \in Modes : ExternalSet(t)

Spec == Init /\ [][Next]_vars

\* A guard's scope ends: the caller's code terminates, and the language runs
\* drop on every exit path.
FairSpec == Spec /\ \A g \in Guards : WF_vars(\E p \in Paths : Release(g, p))

\* ---------------------------------------------- sequence-based backend
\* target_os = "redox": there is no attribute structure; the modes are
\* switched by control sequences written to the wrapped channel, and
\* RawTerminal holds the channel only.  A build has one backend or the other.

\* The control sequence introducer ESC [, and the two sequences raw.rs sends:
\* csi("r") on entry and csi(b"R") on drop.
CSI == <<27, 91>>
EnterRaw == CSI \o <<114>>
ExitRaw == CSI \o <<82>>

\* TermControl::csi(b): the introducer followed by b goes to the channel in
\* one write, which takes all of it or fails.
csi(out, b, ok) ==
    W_write(out, CSI \o b, IF ok THEN Len(CSI \o b) ELSE -1)

\* The error of a failed channel write, handed on by into_raw_mode.
ChannelFailed == Err("Io", "write to the channel failed")

\* Variant: the result of csi is dropped and the guard is built anyway.
redox_into_raw_mode_IgnoresError(out, ok) ==
    LET w == csi(out, <<114>>, ok)
    IN  [ret |-> Ok, guard |-> Some(w.chan), chan |-> w.chan]

\* The body of into_raw_mode: self.csi("r").map(|_| RawTerminal { output: self })
redox_into_raw_mode(out, ok) ==
    LET w == csi(out, <<114>>, ok)
    IN  IF w.ret.tag = "Ok"
        THEN [ret |-> Ok, guard |-> Some(w.chan), chan |-> w.chan]
        ELSE [ret |-> ChannelFailed, guard |-> None, chan |-> w.chan]

RedoxIntoRawMode(g) ==
    /\ result[g] = NotCalled
    /\ \A h \in Guards : h < g => result[h] # NotCalled
    /\ \E ok \in BOOLEAN :
         LET r == redox_into_raw_mode(output[g], ok)
         IN  /\ output' = [output EXCEPT ![g] = r.chan]
             /\ result' = [result EXCEPT ![g] = r.ret]
             /\ lifecycle' = [lifecycle EXCEPT
                                ![g] = IF r.guard # None THEN "RawActive" ELSE @]
    /\ nestedIn' = [nestedIn EXCEPT ![g] = {h \in Guards : lifecycle[h] = "RawActive"}]
    /\ UNCHANGED <<tios, prev_ios, pre, enterTrace, dropVars, calls, relAgain, dirty,
                   external, ops>>

\* The body of Drop::drop: self.csi(b"R"), through the guard's own write;
\* the result is discarded.
redox_drop(out, ok) ==
    LET w == csi(out, <<82>>, ok)
    IN  [chan |-> w.chan, outcome |-> "completed"]

RedoxRelease(g, path) ==
    /\ lifecycle[g] = "RawActive"
    /\ \E ok \in BOOLEAN :
         LET r == redox_drop(output[g], ok)
         IN  /\ output' = [output EXCEPT ![g] = r.chan]
             /\ dropOutcome' = [dropOutcome EXCEPT ![g] = r.outcome]
             /\ lifecycle' = [lifecycle EXCEPT
                    ![g] = IF r.outcome = "completed" THEN "Restored" ELSE "Aborted"]
    /\ lastReleased' = g
    /\ UNCHANGED <<tios, prev_ios, result, pre, nestedIn, enterTrace, dropTrace, calls,
                   relAgain, dirty, external, ops>>

RedoxNext ==
    \/ \E g \in Guards : RedoxIntoRawMode(g)
    \/ \E g \in Guards, p \in Paths : RedoxRelease(g, p)
    \/ \E g \in Guards : ReleaseAgain(g)
    \/ \E g \in Guards, buf \in Bufs : Write(g, buf)
    \/ \E g \in Guards : Flush(g)
    \/ \E g \in Guards : Deref(g)
    \/ \E g \in Guards, buf \in Bufs : DerefMut(g, buf)

RedoxSpec == Init /\ [][RedoxNext]_vars

\* ------------------------------------------------------------ derived views
\* restore invocations of guard g, and whether the (last) one succeeded
RestoreCalls(g) == Len(dropTrace[g])
RestoreOk(g) == /\ dropTrace[g] # <<>>
                /\ dropTrace[g][Len(dropTrace[g])].ret = 0
RestoreFailed(g) == \E i \in 1..Len(dropTrace[g]) : dropTrace[g][i].ret # 0
\* the same, of the state after a step
RestoreOkNext(g) == /\ dropTrace'[g] # <<>>
                    /\ dropTrace'[g][Len(dropTrace'[g])].ret = 0
\* OS calls of slot g's into_raw_mode
CaptureFailed(g) == \E i \in 1..Len(enterTrace[g]) :
                        enterTrace[g][i].op = "get" /\ enterTrace[g][i].ret # 0
ApplyCalls(g) == Cardinality({i \in 1..Len(enterTrace[g]) : enterTrace[g][i].op = "set"})
ApplyFailed(g) == \E i \in 1..Len(enterTrace[g]) :
                      enterTrace[g][i].op = "set" /\ enterTrace[g][i].ret # 0
\* slot g's call is made in this step
Called(g) == result[g] = NotCalled /\ result'[g] # NotCalled
\* guard g is released in this step
ReleasedNow(g) == lifecycle[g] = "RawActive" /\ lifecycle'[g] # "RawActive"

\* ------------------------------------------------------------------ claims
\* C1 as stated: a guard released with nobody else having changed the
\* terminal since its into_raw_mode leaves the terminal in the state S that
\* into_raw_mode found.
C1_RoundTripAlways ==
    [][\A g \in Guards :
          (ReleasedNow(g) /\ ~dirty[g]) => Some(tios') = pre[g]]_vars

\* C1, amended: round trip.  A guard released with nobody else having changed
\* the terminal since its into_raw_mode leaves the terminal in the state S
\* that into_raw_mode found, provided the restore call of the release
\* succeeds.
C1_RoundTrip ==
    [][\A g \in Guards :
          (ReleasedNow(g) /\ ~dirty[g] /\ RestoreOkNext(g)) => Some(tios') = pre[g]]_vars

\* A guard took a non-raw terminal to raw and its release brought it back.
C1_Witness ==
    \E g \in Guards :
        /\ lifecycle[g] = "Restored" /\ RestoreOk(g) /\ ~dirty[g]
        /\ pre[g] = Some(tios)
        /\ cfmakeraw(tios) # tios

\* C2: a failed capture makes into_raw_mode return the read-failure error,
\* which differs from the write-failure error; no guard is created, apply is
\* not called, restore is never called for that call, and the call leaves
\* the terminal attributes as they were.
C2_CaptureFailure ==
    [][\A g \in Guards :
          /\ CaptureFailed(g)' =>
                /\ result'[g] = ReadFailed
                /\ result'[g] # WriteFailed
                /\ lifecycle'[g] = "Uninitialized"
                /\ prev_ios'[g] = None
                /\ ApplyCalls(g)' = 0
                /\ RestoreCalls(g)' = 0
          /\ (Called(g) /\ CaptureFailed(g)') => tios' = tios]_vars

\* A call whose capture failed, after which a later slot still got its guard.
C2_Witness ==
    \E g, h \in Guards :
        /\ CaptureFailed(g) /\ result[g] = ReadFailed
        /\ g < h /\ lifecycle[h] = "RawActive"

\* C3: a failed apply makes into_raw_mode return the write-failure error; no
\* guard is created, restore is never called for that call, and a capture
\* taken after the call equals a capture taken before it.
C3_ApplyFailure ==
    [][\A g \in Guards :
          /\ ApplyFailed(g)' =>
                /\ result'[g] = WriteFailed
                /\ lifecycle'[g] = "Uninitialized"
                /\ prev_ios'[g] = None
                /\ RestoreCalls(g)' = 0
          /\ (Called(g) /\ ApplyFailed(g)') =>
                /\ tios' = tios
                /\ get_terminal_attr(tios', FALSE, Zeroed)
                     = get_terminal_attr(tios, FALSE, Zeroed)]_vars

\* A call whose apply failed on a terminal that raw mode would have changed.
C3_Witness ==
    \E g \in Guards :
        /\ ApplyFailed(g) /\ result[g] = WriteFailed
        /\ pre[g] = Some(tios)
        /\ cfmakeraw(tios) # tios

\* C4: single restoration.  The restore operation is called at most once per
\* guard, also when the release of a guard is requested again, and never for
\* a slot whose into_raw_mode did not succeed.
C4_SingleRestore ==
    \A g \in Guards :
        /\ RestoreCalls(g) <= 1
        /\ RestoreCalls(g) > 0 => result[g] = Ok
        /\ lifecycle[g] = "Uninitialized" => RestoreCalls(g) = 0

\* The only released guard was asked to release again, and its restore still
\* ran once.
C4_Witness ==
    \E g \in Guards :
        /\ relAgain
        /\ lifecycle[g] = "Restored" /\ RestoreCalls(g) = 1
        /\ \A h \in Guards \ {g} : lifecycle[h] # "Restored"

\* C5: restoration on every exit path.  Every guard a successful
\* into_raw_mode created eventually has restore called, once, with the
\* snapshot it holds, whichever exit path ends its scope; no guard stays
\* RawActive for ever.
C5_EventuallyRestored ==
    \A g \in Guards :
        (lifecycle[g] = "RawActive") ~>
            (/\ lifecycle[g] = "Restored"
             /\ RestoreCalls(g) = 1
             /\ dropTrace[g][1].arg = prev_ios[g])

\* Two guards were live together and both have had restore called with their
\* own snapshots.
C5_Witness ==
    \E g, h \in Guards :
        /\ g \in nestedIn[h]
        /\ \A k \in {g, h} : /\ lifecycle[k] = "Restored"
                             /\ RestoreCalls(k) = 1
                             /\ dropTrace[k][1].arg = prev_ios[k]

\* C6: guard snapshot invariant.  The snapshot of a live guard is the
\* terminal attribute state its into_raw_mode found (not the raw state it
\* derived), and it does not change while the guard lives.
C6_SnapshotInvariant ==
    [][\A g \in Guards :
          /\ lifecycle'[g] = "RawActive" =>
                /\ prev_ios'[g] # None
                /\ prev_ios'[g] = pre'[g]
          /\ lifecycle[g] = "RawActive" => prev_ios'[g] = prev_ios[g]]_vars

\* A live guard, written through, holds a snapshot that differs from the raw
\* state now on the terminal.
C6_Witness ==
    \E g \in Guards :
        /\ lifecycle[g] = "RawActive"
        /\ calls[g] # <<>>
        /\ prev_ios[g] = pre[g]
        /\ prev_ios[g] # Some(tios)
        /\ \A s \in prev_ios[g] : tios = cfmakeraw(s)

\* C7: guard lifecycle.  A slot moves only Uninitialized -> RawActive ->
\* Restored: the first step only in a successful into_raw_mode, the second
\* only in the guard's release, which calls restore once; a failed
\* into_raw_mode leaves the slot Uninitialized, and nothing leaves Restored.
C7_Lifecycle ==
    [][\A g \in Guards :
          /\ lifecycle'[g] # lifecycle[g] =>
                \/ /\ lifecycle[g] = "Uninitialized" /\ lifecycle'[g] = "RawActive"
                   /\ Called(g) /\ result'[g] = Ok
                \/ /\ lifecycle[g] = "RawActive" /\ lifecycle'[g] = "Restored"
                   /\ lastReleased' = g
                   /\ RestoreCalls(g) = 0 /\ RestoreCalls(g)' = 1
          /\ result'[g] # Ok => lifecycle'[g] = "Uninitialized"
          /\ lifecycle[g] = "Restored" => lifecycle'[g] = "Restored"]_vars

\* One guard has run its whole lifecycle, its restore called once, and a
\* failed call has left its slot Uninitialized.
C7_Witness ==
    \E g, k \in Guards :
        /\ lifecycle[g] = "Restored" /\ RestoreCalls(g) = 1 /\ lastReleased = g
        /\ result[k] \in {ReadFailed, WriteFailed} /\ lifecycle[k] = "Uninitialized"

\* The bytes the channel accepted according to the results the caller saw.
RECURSIVE Accepted(_)
Accepted(cs) ==
    IF cs = <<>> THEN <<>>
    ELSE LET c == cs[Len(cs)]
         IN  Accepted(SubSeq(cs, 1, Len(cs) - 1))
               \o (IF c.op = "write" /\ c.ret.tag = "Ok"
                   THEN SubSeq(c.buf, 1, c.ret.n) ELSE <<>>)

\* C8: pass-through writing.  The wrapped channel receives exactly the calls
\* made through the guard, in their order and with their bytes, every call
\* returns the channel's own result, and the channel's content is exactly
\* the bytes the caller's writes had accepted.
C8_PassThrough ==
    \A g \in Guards :
        /\ output[g].recv = calls[g]
        /\ output[g].data = Accepted(calls[g])

\* A short write followed by a failed call, both through the same guard.
C8_Witness ==
    \E g \in Guards :
        /\ Len(calls[g]) = 2
        /\ calls[g][1].op = "write" /\ calls[g][1].ret = IoOk(1)
        /\ calls[g][2].ret = IoErr
        /\ output[g].data = <<104>>

\* C9: restoration failure is absorbed.  When the restore call of a release
\* fails, the release completes (no panic, no abort), restore is not called
\* again, the guard ends Restored, and the terminal is left as the failed
\* call left it.
C9_RestoreFailureAbsorbed ==
    [][\A g \in Guards :
          /\ RestoreFailed(g)' =>
                /\ lifecycle'[g] = "Restored"
                /\ dropOutcome'[g] = "completed"
                /\ RestoreCalls(g)' = 1
          /\ (ReleasedNow(g) /\ RestoreFailed(g)') =>
                \A s \in prev_ios[g] : tios' = set_terminal_attr(tios, s, TRUE).term]_vars

\* A release whose restore failed: the guard is Restored, the terminal is not.
C9_Witness ==
    \E g \in Guards :
        /\ RestoreFailed(g)
        /\ lifecycle[g] = "Restored"
        /\ lastReleased = g
        /\ prev_ios[g] # Some(tios)

\* Guards a then b were created, b while a was live, they are the only
\* guards of the run, both are released and no other party changed the
\* terminal.
BothReleased(a, b) ==
    /\ a < b /\ result[a] = Ok /\ result[b] = Ok
    /\ a \in nestedIn[b]
    /\ lifecycle[a] = "Restored" /\ lifecycle[b] = "Restored"
    /\ \A h \in Guards \ {a, b} : result[h] # Ok
    /\ ~external

\* The terminal holds the snapshot of the guard released last: the original
\* state if that is a, the raw state b captured if that is b.
LastWins(a, b) ==
    /\ lastReleased \in {a, b}
    /\ Some(tios) = prev_ios[lastReleased]
    /\ lastReleased = a => Some(tios) = pre[a]
    /\ lastReleased = b => \A s \in pre[a] : tios = cfmakeraw(s)

C11_AppliesDerivedRaw ==
    [][\A g \in Guards :
          (Called(g) /\ result'[g] = Ok) =>
              /\ pre'[g] = Some(tios)
              /\ tios' = cfmakeraw(tios)
              /\ ApplyCalls(g)' = 1
              /\ enterTrace'[g][2].arg = Some(cfmakeraw(tios))
              /\ prev_ios'[g] = Some(tios)]_vars

\* A successful call found the mixed mode and left its raw variant, which
\* differs from it; the snapshot is the mixed mode.
C11_Witness ==
    \E g \in Guards :
        /\ result[g] = Ok /\ lastReleased = 0 /\ ~external
        /\ pre[g] = Some(Cbreak) /\ prev_ios[g] = Some(Cbreak)
        /\ tios = cfmakeraw(Cbreak) /\ tios # Cbreak
        /\ enterTrace[g][2] = OsCall("set", Some(tios), 0)

\* The calls the channel of slot g received from into_raw_mode and from the
\* guard's drop, as opposed to the caller's.
EnterCall == Call("write", EnterRaw, IoOk(Len(EnterRaw)))
ExitCalls(g) == {i \in 1..Len(output[g].recv) : output[g].recv[i].buf = ExitRaw}
EnterCalls(g) == {i \in 1..Len(output[g].recv) : output[g].recv[i].buf = EnterRaw}

\* A sequence mirrors the enter sequence when it is keyed to the same control
\* byte after the introducer.
KeyByte(seq) == seq[Len(CSI) + 1]
Mirrors(seq, enter) ==
    /\ Len(seq) > Len(CSI) /\ SubSeq(seq, 1, Len(CSI)) = CSI
    /\ KeyByte(seq) = KeyByte(enter)

\* The guard's own calls on the channel of slot g are in their places: the
\* enter sequence once, before the caller's calls; after the release one
\* more call, after the caller's calls; nothing else.
GuardCallsInOrder(g) ==
    /\ lifecycle[g] = "RawActive" => output[g].recv = <<EnterCall>> \o calls[g]
    /\ lifecycle[g] = "Restored" =>
          /\ Len(output[g].recv) = Len(calls[g]) + 2
          /\ SubSeq(output[g].recv, 1, Len(calls[g]) + 1) = <<EnterCall>> \o calls[g]
          /\ output[g].recv[Len(output[g].recv)].op = "write"
    /\ lifecycle[g] # "Uninitialized" => Cardinality(EnterCalls(g)) = 1

\* C12 as stated, sequence-based backend: a successful into_raw_mode writes
\* the enter-raw sequence to the channel once, before any caller bytes; the
\* release writes, once and after all caller bytes, the exit sequence that
\* mirrors that enter sequence; the guard adds nothing else.
C12_SymmetricSequences ==
    \A g \in Guards :
        /\ GuardCallsInOrder(g)
        /\ lifecycle[g] = "Restored" =>
              Mirrors(output[g].recv[Len(output[g].recv)].buf, EnterRaw)

\* C13, sequence-based backend: into_raw_mode fails if and only if the write
\* of the enter-raw sequence fails; then no guard is created, the channel
\* has received that one failed call only, and the exit-raw sequence is
\* never written to it.
C13_SequenceFailure ==
    \A g \in Guards :
        result[g] # NotCalled =>
            /\ output[g].recv[1].buf = EnterRaw
            /\ result[g] # Ok <=> output[g].recv[1].ret = IoErr
            /\ result[g] # Ok =>
                  /\ result[g] = ChannelFailed
                  /\ lifecycle[g] = "Uninitialized"
                  /\ Len(output[g].recv) = 1
                  /\ ExitCalls(g) = {}

\* A call failed on its channel, and a later call succeeded and its guard
\* was released, which did write the exit-raw sequence.
C13_Witness ==
    \E g, h \in Guards :
        /\ result[g] = ChannelFailed /\ output[g].recv[1].ret = IoErr
        /\ g < h /\ lifecycle[h] = "Restored" /\ ExitCalls(h) # {}

\* A pass-through step: the caller makes a call on the channel of a guard,
\* through the guard's write or flush or through a mutable borrow, or borrows
\* the channel.
PassThroughStep ==
    \/ calls' # calls
    \/ \E g \in Guards : Deref(g)

\* C14: frame of the pass-through operations.  write, flush and borrow on a
\* live guard change neither the terminal attribute state, nor a guard's
\* snapshot, nor a guard's lifecycle state; of the program's operations only
\* into_raw_mode and a guard's release write the terminal attribute state
\* (any other change is another party's).
C14_PassThroughFrame ==
    [][/\ PassThroughStep =>
             /\ tios' = tios
             /\ prev_ios' = prev_ios
             /\ lifecycle' = lifecycle
       /\ tios' # tios =>
             \/ \E g \in Guards : Called(g) \/ ReleasedNow(g)
             \/ \E t \in Modes : ExternalSet(t)]_vars

\* A live guard took two calls, a complete write among them, and the
\* terminal is still in the raw state its into_raw_mode applied, the
\* snapshot still the state found.
C14_Witness ==
    \E g \in Guards :
        /\ lifecycle[g] = "RawActive" /\ ~external /\ lastReleased = 0
        /\ Len(calls[g]) = 2
        /\ \E i \in 1..2 : calls[g][i] = Call("write", <<104, 105>>, IoOk(2))
        /\ prev_ios[g] = pre[g] /\ prev_ios[g] # Some(tios)
        /\ enterTrace[g][2] = OsCall("set", Some(tios), 0)

\* The live guards, the outermost of a set of them (the slots are used in
\* order), and the raw states: those cfmakeraw leaves as they are.
Live == {g \in Guards : lifecycle[g] = "RawActive"}
Outermost(gs) == CHOOSE m \in gs : \A h \in gs : m <= h
IsRaw(t) == cfmakeraw(t) = t

\* A step that keeps the LIFO order: a guard released in it is the live
\* guard created last.
LifoStep == \A g \in Guards : ReleasedNow(g) => \A h \in Live : h <= g

\* While a session is open the live guards form a nest, each created under
\* exactly the live guards older than it; the terminal is raw, and every live
\* guard but the outermost holds that raw state as its snapshot.
RawWhileOpen ==
    Live # {} =>
        /\ \A g \in Live : nestedIn[g] = {h \in Live : h < g}
        /\ IsRaw(tios)
        /\ \A g \in Live \ {Outermost(Live)} : prev_ios[g] = Some(tios)

\* C15: raw mode holds while a session is open under LIFO nesting.  As long
\* as guards are released in LIFO order and no other party changes the
\* attributes, the terminal is raw in every state with a live guard; the
\* release of an inner guard leaves the raw state derived from the state the
\* outermost live guard found; and the attributes change only in the release
\* of the outermost guard, which was created with no guard live and returns
\* the state it found.
C15_RawWhileOpen ==
    [][(RawWhileOpen /\ LifoStep /\ ~external') =>
          /\ RawWhileOpen'
          /\ \A g \in Guards :
                (ReleasedNow(g) /\ Live' # {}) =>
                    /\ IsRaw(tios')
                    /\ \A s \in pre[Outermost(Live')] : tios' = cfmakeraw(s)
          /\ (Live # {} /\ tios' # tios) =>
                \E g \in Guards :
                    /\ ReleasedNow(g) /\ Live' = {}
                    /\ nestedIn[g] = {}
                    /\ Some(tios') = pre[g]]_vars

\* The inner of two nested guards was released with a successful restore:
\* the outer guard is live and the terminal is in the raw state, not in the
\* state the outer guard found.
C15_Witness ==
    \E a, b \in Guards :
        /\ a \in nestedIn[b] /\ ~external
        /\ lifecycle[a] = "RawActive"
        /\ lifecycle[b] = "Restored" /\ RestoreOk(b) /\ lastReleased = b
        /\ IsRaw(tios) /\ pre[a] # Some(tios)
        /\ \A s \in pre[a] : tios = cfmakeraw(s)

====
